---- MODULE Spec2Model ----
(***************************************************************************)
(* RegInfo RIN monitor (src/rin_monitor_cli.py): the RINMonitor class, its  *)
(* snapshot store on the filesystem, its normaliser and the run loop.       *)
(*                                                                          *)
(* Text is a sequence of lexical tokens; every token stands for one fixed   *)
(* piece of text (its characters are in the token's name) and CharLen gives *)
(* its length in characters.  The regular expressions of the normaliser are *)
(* translated token by token: their literals are whole tokens here.         *)
(***************************************************************************)
EXTENDS Integers, Sequences, FiniteSets, TLC

VARIABLES
    configFile,  \* what is at config.json: "missing" or the parsed JSON object
    config,      \* self.config of the RINMonitor of the running process
    pc,          \* position of the process: main() / run()
    exc,         \* the exception that ended the process ("" when none)
    idx,         \* run(): 1-based position in rins of the next identifier
    changes,     \* run(): the local counter `changes`
    files,       \* the files under data_dir: the snapshot store
    now,         \* the wall clock, in ticks of 1/TicksPerSec second
    writes,      \* history: per identifier, the clock of each save_rin_xml write
    lastPass,    \* history: what the last monitor_rin pass of this run read and did
    probe        \* the operation under test, in the specifications of one operation

vars == <<configFile, config, pc, exc, idx, changes, files, now, writes,
          lastPass, probe>>

----------------------------------------------------------------------------
(* Bounds *)

MaxNow == 3
TicksPerSec == 2
MaxParts == 3

----------------------------------------------------------------------------
(* Tokens *)

WS == " "
NL == "\n"
CRLF == "\r\n"
EQ == "="
DQ == "\""
SQ == "'"
CommentOpen == "<!--"
CommentClose == "-->"
Whitespace == {WS, NL, CRLF}
Quotes == {DQ, SQ}

\* len() of the text of a token
CharLen(tok) ==
    CASE tok \in {WS, NL, EQ, DQ, SQ, ">", "a", "b", "c"} -> 1
      [] tok \in {"id", CRLF} -> 2
      [] tok = CommentClose -> 3
      [] tok \in {CommentOpen, "note", "data"} -> 4
      [] tok = "<rule" -> 5
      [] tok \in {"RUNDATE", "data v1", "data v2", "</rule>"} -> 7
      [] tok \in {"RUN_DATE", "run_date", "Run_Date"} -> 8
      [] tok \in {"timestamp", "Generated", "generated", "1234-AB01",
                  "Not Found"} -> 9
      [] tok \in {"2024-01-01", "2024-02-01", "2024-03-01"} -> 10
      [] tok = "<abstract>...100 characters...</abstract>" -> 100
      [] OTHER -> 1

\* str.lower() of the text of a token
Lower(tok) ==
    CASE tok \in {"RUN_DATE", "Run_Date"} -> "run_date"
      [] tok = "RUNDATE" -> "rundate"
      [] tok = "Generated" -> "generated"
      [] tok = "Not Found" -> "not found"
      [] OTHER -> tok

RECURSIVE TextLen(_)
TextLen(s) == IF s = <<>> THEN 0 ELSE CharLen(Head(s)) + TextLen(Tail(s))

----------------------------------------------------------------------------
(* normalize_xml_for_comparison: seven re.sub passes *)

\* the literal `name` of a pattern against a token, with or without re.IGNORECASE
NameMatches(tok, name, ignorecase) ==
    IF ignorecase THEN Lower(tok) = Lower(name) ELSE tok = name

\* least index >= i of s whose token is not in S (Len(s)+1 when there is none)
RECURSIVE SkipWhile(_, _, _)
SkipWhile(s, S, i) ==
    IF i > Len(s) \/ s[i] \notin S THEN i ELSE SkipWhile(s, S, i + 1)

\* least index >= i of s whose token is in S (Len(s)+1 when there is none)
RECURSIVE FindFirst(_, _, _)
FindFirst(s, S, i) ==
    IF i > Len(s) \/ s[i] \in S THEN i ELSE FindFirst(s, S, i + 1)

\* ["\'] searched from position i: the value part [^"\']* of the pattern ends
\* at the first quote of either style
QuoteClass(s, i) == FindFirst(s, Quotes, i)

\* r'\s+NAME=["\'][^"\']*["\']' matched at position i: index of the last
\* token of the match, 0 when the pattern does not match there
AttrMatchEnd(s, name, ignorecase, i) ==
    IF s[i] \notin Whitespace THEN 0
    ELSE LET j == SkipWhile(s, Whitespace, i)
         IN  IF /\ j + 2 <= Len(s)
                /\ NameMatches(s[j], name, ignorecase)
                /\ s[j + 1] = EQ
                /\ s[j + 2] \in Quotes
             THEN LET k == QuoteClass(s, j + 3)
                  IN  IF k <= Len(s) THEN k ELSE 0
             ELSE 0

\* re.sub(that pattern, '', s): leftmost, non-overlapping matches removed
RECURSIVE SubAttrFrom(_, _, _, _)
SubAttrFrom(s, name, ignorecase, i) ==
    IF i > Len(s) THEN <<>>
    ELSE LET e == AttrMatchEnd(s, name, ignorecase, i)
         IN  IF e > 0 THEN SubAttrFrom(s, name, ignorecase, e + 1)
             ELSE <<s[i]>> \o SubAttrFrom(s, name, ignorecase, i + 1)

SubAttr(s, name, ignorecase) == SubAttrFrom(s, name, ignorecase, 1)

\* re.sub(r'<!--.*?-->', '', s, flags=re.DOTALL)
RECURSIVE SubCommentFrom(_, _)
SubCommentFrom(s, i) ==
    IF i > Len(s) THEN <<>>
    ELSE LET k == FindFirst(s, {CommentClose}, i + 1)
         IN  IF s[i] = CommentOpen /\ k <= Len(s)
             THEN SubCommentFrom(s, k + 1)
             ELSE <<s[i]>> \o SubCommentFrom(s, i + 1)

SubComment(s) == SubCommentFrom(s, 1)

normalize_xml_for_comparison(content) ==
    LET c1 == SubAttr(content, "RUN_DATE", FALSE)
        c2 == SubAttr(c1, "run_date", TRUE)
        c3 == SubAttr(c2, "RUNDATE", FALSE)
        c4 == SubAttr(c3, "rundate", TRUE)
        c5 == SubAttr(c4, "timestamp", TRUE)
        c6 == SubAttr(c5, "generated", TRUE)
    IN  SubComment(c6)

\* hashlib.md5(...).hexdigest(): a digest of the text, taken as collision-free
md5_hexdigest(text) == [md5 |-> text]

get_content_hash(content) ==
    md5_hexdigest(normalize_xml_for_comparison(content))

----------------------------------------------------------------------------
(* compare_xml: unified diff of the two normalised texts, line by line *)

\* the line boundaries of str.splitlines among the tokens
LineEnds == {NL, CRLF}

\* str.splitlines(keepends) from position i on, cur the line begun so far
RECURSIVE SplitLines(_, _, _, _)
SplitLines(s, keepends, i, cur) ==
    IF i > Len(s) THEN (IF cur = <<>> THEN <<>> ELSE <<cur>>)
    ELSE IF s[i] \in LineEnds
    THEN <<IF keepends THEN Append(cur, s[i]) ELSE cur>>
             \o SplitLines(s, keepends, i + 1, <<>>)
    ELSE SplitLines(s, keepends, i + 1, Append(cur, s[i]))

\* (faulty variant: the line terminators are dropped)
splitlines_NoKeepends(text) == SplitLines(text, FALSE, 1, <<>>)

\* text.splitlines(keepends=True)
splitlines(text) == SplitLines(text, TRUE, 1, <<>>)

\* number of leading lines a and b have in common
RECURSIVE CommonPrefix(_, _)
CommonPrefix(a, b) ==
    IF a = <<>> \/ b = <<>> \/ Head(a) # Head(b) THEN 0
    ELSE 1 + CommonPrefix(Tail(a), Tail(b))

Reverse(seq) == [i \in 1..Len(seq) |-> seq[Len(seq) + 1 - i]]

\* lines of context around a hunk (the default n of unified_diff)
ContextLines == 3

\* the lines of seq from..to, each behind the tag of its kind
Tagged(tag, seq, from, to) ==
    [i \in 1..(IF to >= from THEN to - from + 1 ELSE 0) |->
        <<tag>> \o seq[from + i - 1]]

\* difflib.unified_diff(a, b, fromfile='Previous', tofile='Current',
\* lineterm=''): nothing when the line lists are equal; else the two file
\* headers and a hunk.  The matching blocks of the library are taken to be
\* the common head and the common tail of the two lists.
unified_diff(a, b) ==
    IF a = b THEN <<>>
    ELSE LET p == CommonPrefix(a, b)
             ra == Reverse(SubSeq(a, p + 1, Len(a)))
             rb == Reverse(SubSeq(b, p + 1, Len(b)))
             q == CommonPrefix(ra, rb)
             first == IF p > ContextLines THEN p - ContextLines + 1 ELSE 1
             after == IF q > ContextLines THEN ContextLines ELSE q
         IN  <<<<"--- Previous">>, <<"+++ Current">>, <<"@@">>>>
             \o Tagged(" ", a, first, p)
             \o Tagged("-", a, p + 1, Len(a) - q)
             \o Tagged("+", b, p + 1, Len(b) - q)
             \o Tagged(" ", a, Len(a) - q + 1, Len(a) - q + after)

\* ''.join(lines)
RECURSIVE Join(_)
Join(lines) == IF lines = <<>> THEN <<>> ELSE Head(lines) \o Join(Tail(lines))

compare_xml(old_content, new_content) ==
    LET old_normalized == normalize_xml_for_comparison(old_content)
        new_normalized == normalize_xml_for_comparison(new_content)
        old_lines == splitlines(old_normalized)
        new_lines == splitlines(new_normalized)
        diff == unified_diff(old_lines, new_lines)
    IN  Join(diff)

----------------------------------------------------------------------------
(* Documents the remote site may return *)

LongText == "<abstract>...100 characters...</abstract>"

Attr(name, q, value) == <<WS, name, EQ, q>> \o value \o <<q>>

\* <rule ATTRS>COMMENT BODY</rule>
RuleDoc(attrs, comment, body) ==
    <<"<rule">> \o attrs \o <<">">> \o comment \o body \o <<"</rule>">>

RunDate(q, value) == Attr("RUN_DATE", q, value)

\* a short document (57 characters):
\* <rule id="1234-AB01" RUN_DATE="2024-01-01">data v1</rule>
Scenario1Doc ==
    RuleDoc(Attr("id", DQ, <<"1234-AB01">>) \o RunDate(DQ, <<"2024-01-01">>),
            <<>>, <<"data v1">>)

\* full-size documents: <rule RUN_DATE="...">data v1<abstract>...</rule>
V1Jan == RuleDoc(RunDate(DQ, <<"2024-01-01">>), <<>>, <<"data v1", LongText>>)
V1Feb == RuleDoc(RunDate(DQ, <<"2024-02-01">>), <<>>, <<"data v1", LongText>>)
V2Mar == RuleDoc(RunDate(DQ, <<"2024-03-01">>), <<>>, <<"data v2", LongText>>)
\* a run date whose double-quoted value holds an apostrophe: RUN_DATE="a'b"
V1Apos == RuleDoc(RunDate(DQ, <<"a", SQ, "b">>), <<>>, <<"data v1", LongText>>)
\* an error page of the site
NotFoundPage == <<"<rule", ">", "Not Found", LongText, "</rule>">>

GoodDocs == {V1Jan, V1Feb, V2Mar, V1Apos}

----------------------------------------------------------------------------
(* Python values *)

PyNone == [py |-> "None"]
IsNone(v) == "py" \in DOMAIN v

\* dict.get(key, default)
DictGet(d, key, default) == IF key \in DOMAIN d THEN d[key] ELSE default

Min(a, b) == IF a <= b THEN a ELSE b

----------------------------------------------------------------------------
(* The configuration file *)

Rins == {"1234-AB01", "5678-CD02"}
One == <<"1234-AB01">>
Both == <<"1234-AB01", "5678-CD02">>

EmailFull ==
    [smtp_server |-> "smtp.gmail.com", smtp_port |-> 587, username |-> "user",
     password |-> "secret", from_address |-> "from", to_address |-> "to"]
\* the section as create_default_config spells it: no credentials
EmailBlank ==
    [smtp_server |-> "smtp.gmail.com", smtp_port |-> 587, username |-> "",
     password |-> "", from_address |-> "", to_address |-> ""]

\* the JSON objects config.json may hold; the last ones leave keys out
ConfigObjects ==
    {[rins |-> <<>>, data_directory |-> "reginfo_data", keep_files |-> 2,
      email |-> EmailBlank],
     [rins |-> Both, data_directory |-> "reginfo_data", keep_files |-> 2,
      email |-> EmailFull],
     [rins |-> One, data_directory |-> "reginfo_data", keep_files |-> 1,
      email |-> EmailFull],
     [rins |-> One, data_directory |-> "reginfo_data", keep_files |-> 0,
      email |-> EmailFull],
     [rins |-> One, email |-> EmailBlank],
     [rins |-> Both, keep_files |-> 1]}

NoFile == [exists |-> FALSE]
ConfigFiles == {NoFile} \cup {[exists |-> TRUE, json |-> c] : c \in ConfigObjects}

\* create_default_config builds the dict and returns nothing
create_default_config ==
    LET default_config ==
            [rins |-> <<>>, data_directory |-> "reginfo_data", keep_files |-> 2,
             email |-> EmailBlank]
    IN  PyNone

load_config(file) ==
    IF ~file.exists THEN create_default_config ELSE file.json

----------------------------------------------------------------------------
(* The snapshot store: files data_dir/<rin>/rin_<rin>_<pubid>_<timestamp>.xml *)

\* datetime.now().strftime('%Y%m%d_%H%M%S'): the clock cut to the second
Timestamp(t) == t \div TicksPerSec

SameName(f, g) == f.rin = g.rin /\ f.pubid = g.pubid /\ f.stamp = g.stamp

\* (faulty variant: the listing takes the files of every identifier)
Glob_AllRins(fs, rin) == fs

\* rin_dir.glob(f"rin_{rin}_*.xml")
Glob(fs, rin) == {f \in fs : f.rin = rin}

\* order of the file names: the identifier is common, the batch id (six
\* digits) comes first, then the timestamp (fixed width)
NameBefore(f, g) ==
    f.pubid < g.pubid \/ (f.pubid = g.pubid /\ f.stamp < g.stamp)

\* sorted(..., key=st_mtime, reverse=True) as a sequence
RECURSIVE SortedByMtimeDesc(_)
SortedByMtimeDesc(S) ==
    IF S = {} THEN <<>>
    ELSE LET f == CHOOSE x \in S : \A y \in S : y.mtime <= x.mtime
         IN  <<f>> \o SortedByMtimeDesc(S \ {f})

\* (faulty variant: the newest file is kept whatever keep_count is)
SliceFrom_KeepOne(seq, keep_count) ==
    SubSeq(seq, (IF keep_count < 1 THEN 1 ELSE keep_count) + 1, Len(seq))

\* files[keep_count:]
SliceFrom(seq, keep_count) == SubSeq(seq, keep_count + 1, Len(seq))

\* (faulty variant: the first unlink that fails ends the loop)
RECURSIVE UnlinkEach_AbortOnError(_, _, _)
UnlinkEach_AbortOnError(fs, files_to_delete, undeletable) ==
    IF files_to_delete = <<>> THEN fs
    ELSE LET file_path == Head(files_to_delete)
         IN  IF file_path \in undeletable THEN fs
             ELSE UnlinkEach_AbortOnError(fs \ {file_path},
                                          Tail(files_to_delete), undeletable)

\* lines 205-210: unlink each file in turn; an unlink that raises is printed
\* and the loop goes on.  unlink raises for the files in `undeletable`
RECURSIVE UnlinkEach(_, _, _)
UnlinkEach(fs, files_to_delete, undeletable) ==
    IF files_to_delete = <<>> THEN fs
    ELSE LET file_path == Head(files_to_delete)
         IN  IF file_path \in undeletable
             THEN UnlinkEach(fs, Tail(files_to_delete), undeletable)
             ELSE UnlinkEach(fs \ {file_path}, Tail(files_to_delete),
                             undeletable)

\* cleanup_old_files
cleanup_old_files(fs, rin, keep_count, undeletable) ==
    LET sorted == SortedByMtimeDesc(Glob(fs, rin))
        files_to_delete == SliceFrom(sorted, keep_count)
    IN  UnlinkEach(fs, files_to_delete, undeletable)

\* open(filename, 'w') and write: creates the file or replaces its content
WriteFile(fs, f) == {g \in fs : ~SameName(g, f)} \cup {f}

NewFile(rin, pubid, content, t) ==
    [rin |-> rin, pubid |-> pubid, stamp |-> Timestamp(t), content |-> content,
     mtime |-> t]

\* save_rin_xml, called at clock t
save_rin_xml(fs, cfg, rin, pubid, content, t, undeletable) ==
    LET filename == NewFile(rin, pubid, content, t)
        keep_count == DictGet(cfg, "keep_files", 2)
    IN  cleanup_old_files(WriteFile(fs, filename), rin, keep_count, undeletable)

\* get_latest_file_for_rin: sorted(glob, reverse=True)[0], or None
get_latest_file_for_rin(fs, rin) ==
    LET found == Glob(fs, rin)
    IN  IF found = {} THEN PyNone
        ELSE CHOOSE f \in found : \A g \in found : g = f \/ NameBefore(g, f)

----------------------------------------------------------------------------
(* The remote site *)

\* what the agenda page yields: a transport or HTTP error, or the six-digit
\* groups of the REGINFO_RIN_DATA_<pubid>.xml links of class pageSubNav
CatalogPages ==
    {[status |-> "error"]}
    \cup {[status |-> "ok", links |-> L] :
            L \in {{201904, 202407}, {202404}, {202404, 202410, 202407}}}

\* pubid.endswith(('04', '10')) and 2020 <= int(pubid[:4]) <= 2030
AcceptPubid(pubid) ==
    /\ pubid % 100 \in {4, 10}
    /\ 2020 <= pubid \div 100
    /\ pubid \div 100 <= 2030

\* sorted(list(pubids), reverse=True)
RECURSIVE SortedDesc(_)
SortedDesc(S) ==
    IF S = {} THEN <<>>
    ELSE LET m == CHOOSE x \in S : \A y \in S : y <= x
         IN  <<m>> \o SortedDesc(S \ {m})

Returned(v) == [exc |-> "", value |-> v]
Raised(e) == [exc |-> e]

\* self.generate_default_pubids(): RINMonitor defines no such attribute
generate_default_pubids == Raised("AttributeError")

\* get_available_agendas: the except branch calls the generator again
get_available_agendas(page) ==
    IF page.status # "ok" THEN generate_default_pubids
    ELSE LET pubids == {p \in page.links : AcceptPubid(p)}
             tried == IF pubids # {} THEN Returned(SortedDesc(pubids))
                      ELSE generate_default_pubids
         IN  IF tried.exc # "" THEN generate_default_pubids ELSE tried

\* what the export URL yields: a transport or HTTP error, or a body
FetchResponses ==
    {[status |-> "error"]}
    \cup {[status |-> "ok", text |-> d] :
            d \in GoodDocs \cup {<<>>, Scenario1Doc, NotFoundPage}}

\* fetch_rin_xml: response.text, or None on requests.RequestException
fetch_rin_xml(resp) ==
    IF resp.status = "ok" THEN [text |-> resp.text] ELSE PyNone

\* "not found" in current_xml.lower()
HasNotFoundMarker(text) == \E i \in 1..Len(text) : Lower(text[i]) = "not found"

MinContentLength == 100

\* (faulty variant: the length test left out)
IsNotFound_NoLength(text) == HasNotFoundMarker(text)

\* line 386: the response is taken for a missing document
IsNotFound(text) == HasNotFoundMarker(text) \/ TextLen(text) < MinContentLength

----------------------------------------------------------------------------
(* send_email_notification; smtp_ok: the SMTP session goes through *)

send_email_notification(cfg, smtp_ok) ==
    IF "email" \notin DOMAIN cfg THEN Raised("KeyError")
    ELSE LET smtp_config == cfg["email"]
         IN  IF DictGet(smtp_config, "username", "") = ""
                \/ DictGet(smtp_config, "password", "") = ""
             THEN Returned(FALSE)
             ELSE IF {"from_address", "to_address"} \subseteq DOMAIN smtp_config
                  THEN Returned(/\ {"smtp_server", "smtp_port"} \subseteq DOMAIN smtp_config
                                /\ smtp_ok)
                  ELSE Raised("KeyError")

----------------------------------------------------------------------------
(* monitor_rin: one pass for one identifier, at clock t.                    *)
(* env: what the outside does during the pass: the agenda page, the export  *)
(* response, the disk ("ok", "read_error", "write_error"), the SMTP         *)
(* session, the files unlink fails on.                                      *)

DiskOutcomes == {"ok", "read_error", "write_error"}

NoPass ==
    [rin |-> "", branch |-> "", exc |-> "", ret |-> FALSE, pubid |-> 0,
     fetched |-> PyNone, previous |-> PyNone, saved |-> <<>>, notifier |-> 0,
     delivered |-> FALSE]

\* lines 407-416: the content changed
ChangeDetected(fs, cfg, rin, t, env, pass, current_xml) ==
    IF env.disk = "write_error"
    THEN [pass |-> [pass EXCEPT !.branch = "change", !.exc = "OSError"], fs |-> fs]
    ELSE LET new_file == NewFile(rin, pass.pubid, current_xml, t)
             saved == save_rin_xml(fs, cfg, rin, pass.pubid, current_xml, t,
                                   env.undeletable)
             sent == send_email_notification(cfg, env.smtp)
         IN  [pass |-> [pass EXCEPT !.branch = "change", !.saved = <<new_file>>,
                                    !.notifier = 1, !.exc = sent.exc,
                                    !.ret = (sent.exc = ""),
                                    !.delivered = (sent.exc = "" /\ sent.value)],
              fs |-> saved]

\* (faulty variant: the unchanged document is not saved again)
SaveOnly_SkipUnchanged(fs, cfg, rin, t, env, pass, current_xml, branch) ==
    IF env.disk = "write_error"
    THEN [pass |-> [pass EXCEPT !.branch = branch, !.exc = "OSError"], fs |-> fs]
    ELSE IF branch = "no_change"
    THEN [pass |-> [pass EXCEPT !.branch = branch], fs |-> fs]
    ELSE [pass |-> [pass EXCEPT !.branch = branch,
                       !.saved = <<NewFile(rin, pass.pubid, current_xml, t)>>],
          fs |-> save_rin_xml(fs, cfg, rin, pass.pubid, current_xml, t,
                              env.undeletable)]

\* lines 417-425: no change, or no previous snapshot: save and return False
SaveOnly(fs, cfg, rin, t, env, pass, current_xml, branch) ==
    IF env.disk = "write_error"
    THEN [pass |-> [pass EXCEPT !.branch = branch, !.exc = "OSError"], fs |-> fs]
    ELSE [pass |-> [pass EXCEPT !.branch = branch,
                       !.saved = <<NewFile(rin, pass.pubid, current_xml, t)>>],
          fs |-> save_rin_xml(fs, cfg, rin, pass.pubid, current_xml, t,
                              env.undeletable)]

\* (faulty variant: the raw texts are compared, not their hashes)
CompareAndSave_Raw(fs, cfg, rin, t, env, pass0, current_xml) ==
    LET previous_file == get_latest_file_for_rin(fs, rin)
        pass == [pass0 EXCEPT !.previous = previous_file]
    IN  IF ~IsNone(previous_file)
        THEN IF env.disk = "read_error"
             THEN [pass |-> [pass EXCEPT !.branch = "read", !.exc = "OSError"],
                   fs |-> fs]
             ELSE LET previous_xml == previous_file.content
                      current_hash == get_content_hash(current_xml)
                      previous_hash == get_content_hash(previous_xml)
                  IN  IF current_xml # previous_xml
                      THEN ChangeDetected(fs, cfg, rin, t, env, pass, current_xml)
                      ELSE SaveOnly(fs, cfg, rin, t, env, pass, current_xml,
                                    "no_change")
        ELSE SaveOnly(fs, cfg, rin, t, env, pass, current_xml, "baseline")

\* lines 393-425
CompareAndSave(fs, cfg, rin, t, env, pass0, current_xml) ==
    LET previous_file == get_latest_file_for_rin(fs, rin)
        pass == [pass0 EXCEPT !.previous = previous_file]
    IN  IF ~IsNone(previous_file)
        THEN IF env.disk = "read_error"
             THEN [pass |-> [pass EXCEPT !.branch = "read", !.exc = "OSError"],
                   fs |-> fs]
             ELSE LET previous_xml == previous_file.content
                      current_hash == get_content_hash(current_xml)
                      previous_hash == get_content_hash(previous_xml)
                  IN  IF current_hash # previous_hash
                      THEN ChangeDetected(fs, cfg, rin, t, env, pass, current_xml)
                      ELSE SaveOnly(fs, cfg, rin, t, env, pass, current_xml,
                                    "no_change")
        ELSE SaveOnly(fs, cfg, rin, t, env, pass, current_xml, "baseline")

monitor_rin(fs, cfg, rin, t, env) ==
    LET start == [NoPass EXCEPT !.rin = rin]
        available_pubids == get_available_agendas(env.page)
    IN  IF available_pubids.exc # ""
        THEN [pass |-> [start EXCEPT !.branch = "catalog",
                                     !.exc = available_pubids.exc], fs |-> fs]
        ELSE IF available_pubids.value = <<>>
        THEN [pass |-> [start EXCEPT !.branch = "catalog"], fs |-> fs]
        ELSE LET latest_pubid == available_pubids.value[1]
                 current_xml == fetch_rin_xml(env.resp)
                 pass == [start EXCEPT !.pubid = latest_pubid,
                                       !.fetched = current_xml]
             IN  IF IsNone(current_xml) \/ current_xml.text = <<>>
                 THEN [pass |-> [pass EXCEPT !.branch = "fetch_failed"], fs |-> fs]
                 ELSE IF IsNotFound(current_xml.text)
                 THEN [pass |-> [pass EXCEPT !.branch = "not_found"], fs |-> fs]
                 ELSE CompareAndSave(fs, cfg, rin, t, env, pass, current_xml.text)

----------------------------------------------------------------------------
(* The process: main() = RINMonitor() then run(), started again and again   *)
(* by the scheduler                                                         *)

NoProbe == [stage |-> "none", text |-> <<>>, once |-> <<>>, twice |-> <<>>]

Init ==
    /\ configFile \in ConfigFiles
    /\ config = PyNone
    /\ pc = "idle"
    /\ exc = ""
    /\ idx = 0
    /\ changes = 0
    /\ files = {}
    /\ now = 0
    /\ writes = [r \in Rins |-> <<>>]
    /\ lastPass = NoPass
    /\ probe = NoProbe

\* main(): RINMonitor.__init__ (load_config, then self.config.get), then
\* run up to its loop (lines 430-444).  The scheduler starts it again
\* after it has ended.
Main ==
    /\ pc \in {"idle", "exited"}
    /\ config' = load_config(configFile)
    /\ changes' = 0
    /\ IF IsNone(config')
       THEN pc' = "exited" /\ exc' = "AttributeError" /\ idx' = 0
       ELSE IF DictGet(config', "rins", <<>>) = <<>>
       THEN pc' = "exited" /\ exc' = "" /\ idx' = 0
       ELSE pc' = "loop" /\ exc' = "" /\ idx' = 1
    /\ lastPass' = NoPass
    /\ UNCHANGED <<configFile, files, now, writes, probe>>

\* the inputs that the pass gets to read, the others at a fixed value
ReachesFetch(page) ==
    LET a == get_available_agendas(page) IN a.exc = "" /\ a.value # <<>>
ReachesStore(page, resp) ==
    /\ ReachesFetch(page)
    /\ resp.status = "ok"
    /\ resp.text # <<>>
    /\ ~IsNotFound(resp.text)

\* the configuration lets send_email_notification open an SMTP session
CanSend(cfg) ==
    /\ "email" \in DOMAIN cfg
    /\ DictGet(cfg["email"], "username", "") # ""
    /\ DictGet(cfg["email"], "password", "") # ""

\* run, lines 445-447: one iteration of the loop
RunMonitorRin ==
    /\ pc = "loop"
    /\ idx <= Len(config["rins"])
    /\ now < MaxNow
    /\ \E page \in CatalogPages :
       \E resp \in IF ReachesFetch(page) THEN FetchResponses
                   ELSE {[status |-> "error"]} :
       \E disk \in IF ReachesStore(page, resp) THEN DiskOutcomes ELSE {"ok"} :
       \E smtp \in IF ReachesStore(page, resp) /\ disk = "ok" /\ CanSend(config)
                   THEN BOOLEAN ELSE {TRUE} :
       \E done \in {monitor_rin(files, config, config["rins"][idx], now,
                                [page |-> page, resp |-> resp, disk |-> disk,
                                 smtp |-> smtp, undeletable |-> {}])} :
          /\ lastPass' = done.pass
          /\ files' = done.fs
          /\ IF done.pass.saved # <<>>
             THEN /\ now' = now + 1
                  /\ writes' = [writes EXCEPT ![done.pass.rin] = Append(@, now)]
             ELSE now' = now /\ writes' = writes
          /\ IF done.pass.exc # ""
             THEN /\ pc' = "exited" /\ exc' = done.pass.exc
                  /\ idx' = idx /\ changes' = changes
             ELSE /\ pc' = pc /\ exc' = exc /\ idx' = idx + 1
                  /\ changes' = IF done.pass.ret THEN changes + 1 ELSE changes
    /\ UNCHANGED <<configFile, config, probe>>

\* run, lines 449-452
RunEnd ==
    /\ pc = "loop"
    /\ idx > Len(config["rins"])
    /\ pc' = "exited"
    /\ lastPass' = NoPass
    /\ UNCHANGED <<configFile, config, exc, idx, changes, files, now, writes,
                   probe>>

\* time passes
Tick ==
    /\ now < MaxNow
    /\ now' = now + 1
    /\ UNCHANGED <<configFile, config, pc, exc, idx, changes, files, writes,
                   lastPass, probe>>

Next == Main \/ RunMonitorRin \/ RunEnd \/ Tick

Spec == Init /\ [][Next]_vars

----------------------------------------------------------------------------
(* The normaliser on its own: texts put together from a few pieces *)

Pieces ==
    {<<WS, "RUN_DATE", EQ>>, <<WS, "Generated", EQ, DQ, "a", DQ>>,
     <<NL, WS, "timestamp", EQ>>, <<DQ, "b", DQ>>, <<SQ, "c", DQ>>,
     <<CommentOpen, "note", CommentClose>>, <<CommentOpen>>, <<"data">>}

RECURSIVE Concat(_)
Concat(parts) == IF parts = <<>> THEN <<>> ELSE Head(parts) \o Concat(Tail(parts))

Texts == {Concat(parts) : parts \in UNION {[1..n -> Pieces] : n \in 0..MaxParts}}

InitNorm ==
    /\ configFile = NoFile
    /\ config = PyNone
    /\ pc = "idle"
    /\ exc = ""
    /\ idx = 0
    /\ changes = 0
    /\ files = {}
    /\ now = 0
    /\ writes = [r \in Rins |-> <<>>]
    /\ lastPass = NoPass
    /\ probe \in {[NoProbe EXCEPT !.stage = "text", !.text = t] : t \in Texts}

\* normalize_xml_for_comparison(text)
NormalizeOnce ==
    /\ probe.stage = "text"
    /\ probe' = [probe EXCEPT !.stage = "once",
                              !.once = normalize_xml_for_comparison(probe.text)]
    /\ UNCHANGED <<configFile, config, pc, exc, idx, changes, files, now, writes,
                   lastPass>>

\* normalize_xml_for_comparison of that result
NormalizeTwice ==
    /\ probe.stage = "once"
    /\ probe' = [probe EXCEPT !.stage = "twice",
                              !.twice = normalize_xml_for_comparison(probe.once)]
    /\ UNCHANGED <<configFile, config, pc, exc, idx, changes, files, now, writes,
                   lastPass>>

NextNorm == NormalizeOnce \/ NormalizeTwice

SpecNorm == InitNorm /\ [][NextNorm]_vars

----------------------------------------------------------------------------
(* The store on its own: save_rin_xml called again and again, with unlink   *)
(* failing on some of the files                                             *)

SweepConfigs == {[keep_files |-> 0], [keep_files |-> 1], [rins |-> <<>>]}

NoSweep ==
    [stage |-> "none", rin |-> "", written |-> {}, undeletable |-> {}]

InitSweep ==
    /\ configFile = NoFile
    /\ config \in SweepConfigs
    /\ pc = "idle"
    /\ exc = ""
    /\ idx = 0
    /\ changes = 0
    /\ files = {}
    /\ now = 0
    /\ writes = [r \in Rins |-> <<>>]
    /\ lastPass = NoPass
    /\ probe = NoSweep

\* save_rin_xml(rin, pubid, content); probe keeps the store as the write left
\* it (before the sweep) and the files unlink fails on
SaveAndSweep ==
    /\ now < MaxNow
    /\ \E rin \in Rins, pubid \in {202404, 202410} :
       \E written \in {WriteFile(files, NewFile(rin, pubid, V1Jan, now))} :
       \E undeletable \in SUBSET Glob(written, rin) :
          /\ files' = save_rin_xml(files, config, rin, pubid, V1Jan, now,
                                   undeletable)
          /\ probe' = [stage |-> "swept", rin |-> rin, written |-> written,
                       undeletable |-> undeletable]
          /\ writes' = [writes EXCEPT ![rin] = Append(@, now)]
    /\ now' = now + 1
    /\ UNCHANGED <<configFile, config, pc, exc, idx, changes, lastPass>>

NextSweep == SaveAndSweep \/ Tick

SpecSweep == InitSweep /\ [][NextSweep]_vars

----------------------------------------------------------------------------
(* The differ on its own: pairs of texts put together from a few pieces *)

DiffPieces ==
    {<<"a">>, <<NL>>, <<CRLF>>, <<WS, "RUN_DATE", EQ, DQ, "b", DQ>>}

DiffTexts ==
    {Concat(parts) : parts \in UNION {[1..n -> DiffPieces] : n \in 0..MaxParts}}

InitDiff ==
    /\ configFile = NoFile
    /\ config = PyNone
    /\ pc = "idle"
    /\ exc = ""
    /\ idx = 0
    /\ changes = 0
    /\ files = {}
    /\ now = 0
    /\ writes = [r \in Rins |-> <<>>]
    /\ lastPass = NoPass
    /\ probe \in {[stage |-> "pair", old |-> a, new |-> b, diff |-> <<>>] :
                    a \in DiffTexts, b \in DiffTexts}

\* compare_xml(old, new)
CompareXml ==
    /\ probe.stage = "pair"
    /\ probe' = [probe EXCEPT !.stage = "compared",
                              !.diff = compare_xml(probe.old, probe.new)]
    /\ UNCHANGED <<configFile, config, pc, exc, idx, changes, files, now, writes,
                   lastPass>>

NextDiff == CompareXml

SpecDiff == InitDiff /\ [][NextDiff]_vars

----------------------------------------------------------------------------
(* Two runs of the program at once on one identifier: each is inside        *)
(* save_rin_xml, and the steps of the two (the write, the directory         *)
(* listing, each stat of the sort key, each unlink) interleave: no lock is  *)
(* taken anywhere                                                           *)

Procs == {1, 2}
RaceRin == "1234-AB01"

\* a snapshot an earlier run has left
OldFile == NewFile(RaceRin, 202404, V1Jan, 0)

Proc0 ==
    [pc |-> "write", listing |-> {}, statted |-> {}, to_delete |-> <<>>,
     exc |-> ""]

InitRace ==
    /\ configFile = NoFile
    /\ config \in SweepConfigs
    /\ pc = "idle"
    /\ exc = ""
    /\ idx = 0
    /\ changes = 0
    /\ files \in {{}, {OldFile}}
    /\ now = 1
    /\ writes = [r \in Rins |-> <<>>]
    /\ lastPass = NoPass
    /\ probe = [stage |-> "race", proc |-> [p \in Procs |-> Proc0]]

\* lines 168-172: the file is named after the clock and written
RaceWrite(p) ==
    /\ probe.proc[p].pc = "write"
    /\ now < MaxNow
    /\ \E pubid \in {202404, 202410} :
          files' = WriteFile(files, NewFile(RaceRin, pubid, V1Jan, now))
    /\ now' = now + 1
    /\ writes' = [writes EXCEPT ![RaceRin] = Append(@, now)]
    /\ probe' = [probe EXCEPT !.proc[p].pc = "glob"]
    /\ UNCHANGED <<configFile, config, pc, exc, idx, changes, lastPass>>

\* line 201: rin_dir.glob(pattern) lists the directory
RaceGlob(p) ==
    /\ probe.proc[p].pc = "glob"
    /\ probe' = [probe EXCEPT !.proc[p].pc = "stat",
                              !.proc[p].listing = Glob(files, RaceRin)]
    /\ UNCHANGED <<configFile, config, pc, exc, idx, changes, files, now, writes,
                   lastPass>>

\* line 201: the sort key f.stat().st_mtime of one listed file; stat raises
\* FileNotFoundError when the file is gone, outside any try
RaceStat(p) ==
    /\ probe.proc[p].pc = "stat"
    /\ \E f \in probe.proc[p].listing :
          IF \E g \in files : SameName(g, f)
          THEN probe' = [probe EXCEPT
                   !.proc[p].listing = @ \ {f},
                   !.proc[p].statted =
                       @ \cup {CHOOSE g \in files : SameName(g, f)}]
          ELSE probe' = [probe EXCEPT !.proc[p].pc = "aborted",
                                      !.proc[p].exc = "FileNotFoundError"]
    /\ UNCHANGED <<configFile, config, pc, exc, idx, changes, files, now, writes,
                   lastPass>>

\* lines 201-203: every key is there: sort, and slice off the newest
RaceSort(p) ==
    /\ probe.proc[p].pc = "stat"
    /\ probe.proc[p].listing = {}
    /\ LET sorted == SortedByMtimeDesc(probe.proc[p].statted)
           files_to_delete == SliceFrom(sorted, DictGet(config, "keep_files", 2))
       IN  probe' = [probe EXCEPT
               !.proc[p].pc = IF files_to_delete = <<>> THEN "done" ELSE "unlink",
               !.proc[p].to_delete = files_to_delete]
    /\ UNCHANGED <<configFile, config, pc, exc, idx, changes, files, now, writes,
                   lastPass>>

\* lines 205-210: one unlink; FileNotFoundError is caught and printed
RaceUnlink(p) ==
    /\ probe.proc[p].pc = "unlink"
    /\ LET file_path == Head(probe.proc[p].to_delete)
           rest == Tail(probe.proc[p].to_delete)
       IN  /\ files' = {g \in files : ~SameName(g, file_path)}
           /\ probe' = [probe EXCEPT
                  !.proc[p].to_delete = rest,
                  !.proc[p].pc = IF rest = <<>> THEN "done" ELSE "unlink"]
    /\ UNCHANGED <<configFile, config, pc, exc, idx, changes, now, writes,
                   lastPass>>

NextRace ==
    \E p \in Procs :
        RaceWrite(p) \/ RaceGlob(p) \/ RaceStat(p) \/ RaceSort(p) \/ RaceUnlink(p)

SpecRace == InitRace /\ [][NextRace]_vars

----------------------------------------------------------------------------
(* Claims *)

Tracked == IF configFile.exists THEN DictGet(configFile.json, "rins", <<>>) ELSE <<>>
KeepCount == IF configFile.exists THEN DictGet(configFile.json, "keep_files", 2) ELSE 2

\* the last pass got as far as the comparison with a stored snapshot and no
\* storage operation failed in it
Compared(p) == ~IsNone(p.previous) /\ p.exc # "OSError"

HashesDiffer(p) ==
    get_content_hash(p.previous.content) # get_content_hash(p.fetched.text)

\* the fetch of the pass failed, or its response is a not-found page
FetchRejected(p) ==
    /\ p.pubid # 0
    /\ \/ IsNone(p.fetched)
       \/ HasNotFoundMarker(p.fetched.text)
       \/ TextLen(p.fetched.text) < MinContentLength

FetchAccepted(p) == p.pubid # 0 /\ ~FetchRejected(p)

\* a step of the run loop that is a pass of monitor_rin
PassStep ==
    /\ pc = "loop"
    /\ idx <= Len(Tracked)
    /\ idx' = idx + 1 \/ pc' = "exited"

\* C1: after any sequence of writes for one identifier, the retained snapshots
\* number min(keep_files, writes so far) and are the most recently written.
C1_Retention ==
    \A r \in Rins :
        LET n == Len(writes[r])
            k == Min(KeepCount, n)
            recent == {writes[r][i] : i \in (n - k + 1)..n}
        IN  /\ Cardinality(Glob(files, r)) = k
            /\ {f.mtime : f \in Glob(files, r)} = recent

\* C2: get_latest_file_for_rin returns the retained snapshot written last
\* (greatest modification time), and nothing only when none is retained.
C2_LatestIsNewest ==
    \A r \in Rins :
        LET latest == get_latest_file_for_rin(files, r)
        IN  IF Glob(files, r) = {} THEN IsNone(latest)
            ELSE /\ ~IsNone(latest)
                 /\ latest \in Glob(files, r)
                 /\ \A g \in Glob(files, r) : g.mtime <= latest.mtime

C4_AlwaysWritten ==
    (FetchAccepted(lastPass) /\ lastPass.exc # "OSError") =>
        /\ Len(lastPass.saved) = 1
        /\ lastPass.saved[1].content = lastPass.fetched.text
        /\ lastPass.saved[1].rin = lastPass.rin
        /\ lastPass.saved[1].pubid = lastPass.pubid
        /\ KeepCount >= 1 => lastPass.saved[1] \in files

C4_Witness ==
    /\ Compared(lastPass)
    /\ ~HashesDiffer(lastPass)
    /\ lastPass.previous.content # lastPass.fetched.text
    /\ Len(lastPass.saved) = 1
    /\ lastPass.saved[1] \in files

\* what is left of a text when the quoted values of its run-date, rundate,
\* timestamp and generated attributes and its comment blocks are blanked
VolatileNames == {"run_date", "rundate", "timestamp", "generated"}

RECURSIVE SkeletonFrom(_, _)
SkeletonFrom(s, i) ==
    IF i > Len(s) THEN <<>>
    ELSE IF /\ i + 2 <= Len(s)
            /\ Lower(s[i]) \in VolatileNames
            /\ s[i + 1] = EQ
            /\ s[i + 2] \in Quotes
            /\ FindFirst(s, {s[i + 2]}, i + 3) <= Len(s)
    THEN <<s[i], EQ, s[i + 2], s[i + 2]>>
             \o SkeletonFrom(s, FindFirst(s, {s[i + 2]}, i + 3) + 1)
    ELSE IF s[i] = CommentOpen /\ FindFirst(s, {CommentClose}, i + 1) <= Len(s)
    THEN <<CommentOpen, CommentClose>>
             \o SkeletonFrom(s, FindFirst(s, {CommentClose}, i + 1) + 1)
    ELSE <<s[i]>> \o SkeletonFrom(s, i + 1)

DiffersOnlyInVolatile(a, b) == SkeletonFrom(a, 1) = SkeletonFrom(b, 1)

\* C5: when the fetched document differs from the stored one only in the
\* quoted value of a volatile attribute or in comment blocks, the hashes are
\* equal, the pass returns False and the notifier is not invoked.
C5_VolatileOnlyIsNoChange ==
    (/\ Compared(lastPass)
     /\ lastPass.exc = ""
     /\ DiffersOnlyInVolatile(lastPass.previous.content, lastPass.fetched.text))
    => /\ ~HashesDiffer(lastPass)
       /\ ~lastPass.ret
       /\ lastPass.notifier = 0

\* C6: normalize_xml_for_comparison is idempotent: normalising its own output
\* changes nothing, also when removing a comment or an attribute joins the
\* pieces of another removable attribute.
C6_Idempotent ==
    probe.stage = "twice" => probe.twice = probe.once

\* C7: a pass whose fetch failed, or whose response holds the not-found marker
\* or is shorter than the minimum length, writes nothing, deletes nothing and
\* sends nothing.
C7_RejectedFetchLeavesStore ==
    [][(PassStep /\ FetchRejected(lastPass'))
        => /\ files' = files
           /\ writes' = writes
           /\ lastPass'.saved = <<>>
           /\ lastPass'.notifier = 0]_vars

C7_Witness ==
    /\ FetchRejected(lastPass)
    /\ ~IsNone(lastPass.fetched)
    /\ lastPass.fetched.text # <<>>
    /\ ~HasNotFoundMarker(lastPass.fetched.text)
    /\ Glob(files, lastPass.rin) # {}

\* C8: whatever fails while one identifier is processed, run() still processes
\* every remaining identifier of the list: it ends only after the last one.
C8_FailuresContained ==
    (pc = "exited" /\ ~IsNone(config)) =>
        \A i \in 1..Len(DictGet(config, "rins", <<>>)) : i < idx

\* C9: get_available_agendas never raises; whatever the agenda page yields,
\* the pass gets a batch id and goes on to the fetch.
C9_CatalogNeverRaises ==
    lastPass.rin # "" => (lastPass.branch # "catalog" /\ lastPass.pubid # 0)

\* C10: without a configuration file, the monitor is constructed with the
\* default configuration (no identifier, keep_files = 2) and run() completes.
C10_DefaultConfig ==
    (~configFile.exists /\ pc = "exited") =>
        /\ exc = ""
        /\ ~IsNone(config)
        /\ DictGet(config, "rins", <<"?">>) = <<>>
        /\ DictGet(config, "keep_files", 0) = 2

\* C11: Scenario 1: identifier "1234-AB01" has no snapshot and the fetch of
\* its pass returns <rule id="1234-AB01" RUN_DATE="2024-01-01">data v1</rule>:
\* the pass writes the baseline, does not invoke the notifier, and the store
\* then holds exactly one snapshot of the identifier.
C11_Scenario1 ==
    [][(/\ PassStep
        /\ Glob(files, "1234-AB01") = {}
        /\ lastPass'.rin = "1234-AB01"
        /\ lastPass'.pubid # 0
        /\ lastPass'.fetched = [text |-> Scenario1Doc]
        /\ DictGet(config, "keep_files", 2) >= 1)
        => /\ lastPass'.branch = "baseline"
           /\ Len(lastPass'.saved) = 1
           /\ lastPass'.notifier = 0
           /\ Cardinality(Glob(files', "1234-AB01")) = 1]_vars

\* C12: a persisted snapshot is never changed in place: as long as a file of
\* some name is in the store, its content is the one it was created with, so
\* of two writes of one identifier and batch within one clock second neither
\* replaces the record of the other and no data is lost.
C12_NeverMutatedInPlace ==
    [][\A f \in files : \A g \in files' :
          SameName(f, g) => g.content = f.content]_vars

\* C13: send_email_notification never raises to monitor_rin: a pass that
\* invoked it ends without an exception, and without credentials or a usable
\* email section the notifier reports False (not delivered).
C13_NotifierNeverRaises ==
    lastPass.notifier = 1 =>
        /\ lastPass.exc = ""
        /\ ~CanSend(config) => ~lastPass.delivered

\* the pass found the hashes to differ and its write went through
ChangePass(p) == p.branch = "change" /\ p.exc # "OSError"

\* C14: in a pass that detects a change the new snapshot is written and the
\* sweep done before the notifier is invoked; the notifier is invoked once,
\* and in no other pass; and whatever comes of the notification, the store is
\* the one the write and sweep left and the pass returns True.
C14_WriteThenNotify ==
    [][(PassStep /\ lastPass'.rin # "") =>
          /\ lastPass'.notifier = (IF ChangePass(lastPass') THEN 1 ELSE 0)
          /\ ChangePass(lastPass') =>
                /\ Len(lastPass'.saved) = 1
                /\ files' = save_rin_xml(files, config, lastPass'.rin,
                                         lastPass'.pubid,
                                         lastPass'.fetched.text, now, {})
                /\ lastPass'.exc = ""
                /\ lastPass'.ret]_vars

\* the files of the sweep's identifier that are not among the keep_count
\* newest (by modification time) of the store as the write left it
BeyondKeep ==
    {f \in Glob(probe.written, probe.rin) :
        Cardinality({g \in Glob(probe.written, probe.rin) : g.mtime >= f.mtime})
            > DictGet(config, "keep_files", 2)}

\* C15: a file cleanup_old_files cannot delete does not end the sweep: after
\* the sweep, every file beyond the keep_count newest is gone except those
\* whose unlink failed, and nothing else has been removed.
C15_SweepGoesOn ==
    probe.stage = "swept" =>
        files = probe.written \ (BeyondKeep \ probe.undeletable)

C15_Witness ==
    /\ probe.stage = "swept"
    /\ BeyondKeep \cap probe.undeletable # {}
    /\ BeyondKeep \ probe.undeletable # {}
    /\ \E f \in BeyondKeep \cap probe.undeletable :
       \E g \in BeyondKeep \ probe.undeletable : g.mtime < f.mtime

\* C16: compare_xml(X, X) is the empty string for every text X, and
\* compare_xml(A, B) is not empty whenever get_content_hash(A) differs from
\* get_content_hash(B), also when the normalised texts differ only in line
\* terminators or in a trailing newline.
C16_DiffRoundTrip ==
    probe.stage = "compared" =>
        /\ probe.old = probe.new => probe.diff = <<>>
        /\ get_content_hash(probe.old) # get_content_hash(probe.new)
              => probe.diff # <<>>

C16_Witness ==
    /\ probe.stage = "compared"
    /\ get_content_hash(probe.old) # get_content_hash(probe.new)
    /\ SplitLines(normalize_xml_for_comparison(probe.old), FALSE, 1, <<>>)
         = SplitLines(normalize_xml_for_comparison(probe.new), FALSE, 1, <<>>)
    /\ probe.old # normalize_xml_for_comparison(probe.old)
    /\ probe.diff # <<>>

\* C17: a pass for one identifier reads, creates and deletes only snapshot
\* files of that identifier: the snapshots of every other identifier are the
\* same, in number and content, after the pass as before it.
C17_FramePerIdentifier ==
    [][PassStep =>
          /\ \A r \in Rins \ {lastPass'.rin} :
                {f \in files' : f.rin = r} = {f \in files : f.rin = r}
          /\ ~IsNone(lastPass'.previous) =>
                lastPass'.previous.rin = lastPass'.rin
          /\ \A f \in (files' \ files) \cup (files \ files') :
                f.rin = lastPass'.rin]_vars

C17_Witness ==
    /\ lastPass.rin = "5678-CD02"
    /\ lastPass.saved # <<>>
    /\ ~IsNone(lastPass.previous)
    /\ lastPass.previous \notin files
    /\ ~SameName(lastPass.previous, lastPass.saved[1])
    /\ \E f \in files : f.rin = "1234-AB01"

\* the snapshot of the identifier written last (greatest modification time)
NewestWritten(fs, rin) ==
    CHOOSE f \in {g \in fs : g.rin = rin} :
        \A g \in {h \in fs : h.rin = rin} : g.mtime <= f.mtime

\* C18: a change is notified at most once: when a successful pass fetches a
\* document whose normalised content equals that of the document the previous
\* successful pass of the identifier fetched and wrote, it returns False and
\* does not invoke the notifier, whatever the batch ids of the two passes and
\* whatever else is retained (keep_files >= 1).
C18_NotifiedOnce ==
    [][(/\ PassStep
        /\ lastPass'.exc = ""
        /\ lastPass'.saved # <<>>
        /\ DictGet(config, "keep_files", 2) >= 1
        /\ \E f \in files : f.rin = lastPass'.rin
        /\ get_content_hash(NewestWritten(files, lastPass'.rin).content)
             = get_content_hash(lastPass'.fetched.text))
        => /\ ~lastPass'.ret
           /\ lastPass'.notifier = 0]_vars

\* C19: with keep_files = 0 nothing is retained: after every write and sweep
\* the identifier has no snapshot, so every pass that writes is a baseline
\* pass, and no pass returns True or invokes the notifier.
C19_KeepNothing ==
    KeepCount = 0 =>
        /\ files = {}
        /\ lastPass.saved # <<>> => lastPass.branch = "baseline"
        /\ ~lastPass.ret
        /\ lastPass.notifier = 0

C19_Witness ==
    /\ KeepCount = 0
    /\ lastPass.branch = "baseline"
    /\ lastPass.exc = ""
    /\ Len(lastPass.saved) = 1
    /\ Len(writes[lastPass.rin]) >= 2
    /\ files = {}

\* C20: when two runs overlap on one identifier, neither write-and-sweep
\* cycle aborts because of a file the other has deleted, and once both have
\* finished the identifier holds at most keep_files snapshots.
C20_OverlappingRuns ==
    probe.stage = "race" =>
        /\ \A p \in Procs : probe.proc[p].pc # "aborted"
        /\ (\A p \in Procs : probe.proc[p].pc = "done")
              => Cardinality(Glob(files, RaceRin))
                    <= DictGet(config, "keep_files", 2)

====
